---- MODULE Spec2Model ----
(***************************************************************************)
(* sync-kv: one SyncKVServer and the SyncKVClients built on it, with the    *)
(* in-process transport of the repository: server.push and server.pull are  *)
(* async functions without an await, so their bodies run inside the call    *)
(* (inside mutate, inside poke, inside the client's constructor) and only    *)
(* the `.then(this.onPull)` callbacks run later, in the order the promises   *)
(* were made.                                                                *)
(*                                                                           *)
(* Databases and patches are functions whose DOMAIN is the set of keys they  *)
(* hold; a key outside the DOMAIN reads as JavaScript's undefined.  The      *)
(* result of a read is <<>> for undefined and <<v>> for the value v.         *)
(***************************************************************************)
EXTENDS Integers, Sequences, FiniteSets, TLC

\* ------------------------------------------------------------------ bounds
MaxMutations == 3
MaxApiCalls == 1
MaxWatches == 2

Clients == {"c1", "c2"}
Keys == {"value", "todos"}
AddArgs == {2}
TodoTexts == {"eggs"}
\* initialState of the SyncKVServer constructor: absent, or a database
InitialStates == {<<>>, <<[value |-> 1]>>}

\* lastMutationId absent / cookie undefined
NoMutation == 0
NoCookie == -1

VARIABLES
    sdb,              \* SyncKVServer.db: the patch log
    version,          \* SyncKVServer.version
    lastMutationIds,  \* SyncKVServer.lastMutationIds
    handles,          \* SyncKVServer.clients: the registered handles, in order
    mounted,          \* the clients that have been constructed
    db,               \* SyncKVClient.db, per client
    optimisticMutations, \* SyncKVClient.optimisticMutations, per client
    cookie,           \* SyncKVClient.cookie, per client
    inbox,            \* per client: pull responses whose onPull has not run yet
    nextId,           \* the next mutationId randomId() hands out
    pushes,           \* history: the mutations the server executed, in order
    acks,             \* history: <<clientId, lastMutationId>> of every pull that returned one
    missed,           \* history: clients that, at some push, were not registered or dropped the poke
    last,             \* the operation that led to this state
    reply,            \* the request and response of the last direct call of the API
    apiCalls,         \* the number of direct calls of the API so far
    emitted,          \* the keys the last operation called emit() for
    subscriptions,    \* SyncKVClient.subscriptions, per client: key -> callbacks in order
    unsubs,           \* the functions watch() has returned, each with its call count
    tx                \* a Transaction or ServerTransaction under study

vars == <<sdb, version, lastMutationIds, handles, mounted, db,
          optimisticMutations, cookie, inbox, nextId, pushes, acks, missed, last,
          reply, apiCalls, emitted, subscriptions, unsubs, tx>>

\* ------------------------------------------------------------- patches
Has(p, k) == k \in DOMAIN p

Lookup(p, k) == IF Has(p, k) THEN <<p[k]>> ELSE <<>>

\* { ...a, ...b } and Object.assign(a, b)
Assign(a, b) ==
    [k \in (DOMAIN a) \cup (DOMAIN b) |-> IF k \in DOMAIN b THEN b[k] ELSE a[k]]

\* JavaScript truthiness of the values a key can hold: a number is falsy
\* when it is 0, an array is always truthy
Truthy(k, v) == IF k = "value" THEN v # 0 ELSE TRUE

\* --------------------------------------------------------- transactions
\* Transaction.get: this.patch[key] || this.db[key]
TxGet(patch, cdb, k) ==
    IF Has(patch, k) /\ Truthy(k, patch[k]) THEN <<patch[k]>> ELSE Lookup(cdb, k)

\* Transaction.set / ServerTransaction.set
TxSet(patch, k, v) == Assign(patch, [x \in {k} |-> v])

RECURSIVE NewestFirst(_, _, _)
NewestFirst(log, i, k) ==
    IF i = 0 THEN <<>>
    ELSE IF Has(log[i], k) THEN <<log[i][k]>>
    ELSE NewestFirst(log, i - 1, k)

\* a scan that returns the oldest hit instead of the newest
ServerGet_OldestFirst(log, k) ==
    LET hits == {i \in 1..Len(log) : Has(log[i], k)}
    IN IF hits = {} THEN <<>> ELSE <<log[CHOOSE i \in hits : \A j \in hits : i <= j][k]>>

\* SyncKVServer.get
ServerGet(log, k) == NewestFirst(log, Len(log), k)

\* a server transaction that reads its own patch only
ServerTxGet_IgnoresLog(patch, log, k) == IF Has(patch, k) THEN <<patch[k]>> ELSE <<>>

\* ServerTransaction.get
ServerTxGet(patch, log, k) ==
    IF Has(patch, k) THEN <<patch[k]>> ELSE NewestFirst(log, Len(log), k)

\* ------------------------------------------------------------- mutators
Mutators == {"add", "addTodo"}

MutatorArgs(name) == IF name = "add" THEN AddArgs ELSE TodoTexts

\* the key a mutator reads and then writes
MutatorKey(name) == IF name = "add" THEN "value" ELSE "todos"

\* add:     tx.set("value", (tx.get("value") ?? 0) + x)
\* addTodo: tx.set("todos", [...(tx.get("todos") ?? []), { text, done: false }])
MutatorWrite(name, read, arg) ==
    IF name = "add"
    THEN (IF read = <<>> THEN 0 ELSE read[1]) + arg
    ELSE (IF read = <<>> THEN <<>> ELSE read[1]) \o <<[text |-> arg, done |-> FALSE]>>

\* new Transaction(db); mutators[key](tx, ...args); tx.patch
ClientRun(cdb, name, arg) ==
    TxSet(<<>>, MutatorKey(name),
          MutatorWrite(name, TxGet(<<>>, cdb, MutatorKey(name)), arg))

\* mutators[key](tx, ...args) on the push's ServerTransaction
ServerRun(patch, log, name, arg) ==
    TxSet(patch, MutatorKey(name),
          MutatorWrite(name, ServerTxGet(patch, log, MutatorKey(name)), arg))

RECURSIVE ServerRunAll(_, _, _)
ServerRunAll(patch, log, mutations) ==
    IF mutations = <<>> THEN patch
    ELSE ServerRunAll(ServerRun(patch, log, Head(mutations).key, Head(mutations).arg),
                      log, Tail(mutations))

\* ----------------------------------------------------------------- server
RECURSIVE Reduce(_, _)
Reduce(acc, patches) ==
    IF patches = <<>> THEN acc
    ELSE Reduce(Assign(acc, Head(patches)), Tail(patches))

\* a slice that starts one entry late
Slice_OffByOne(log, c) == IF c + 1 >= Len(log) THEN <<>> ELSE SubSeq(log, c + 2, Len(log))

\* this.db.slice(cookie)
Slice(log, c) == IF c >= Len(log) THEN <<>> ELSE SubSeq(log, c + 1, Len(log))

\* a pull that answers with the cookie it was asked with
PullResponse_EchoCookie(log, ver, lmi, clientId, c) ==
    [cookie |-> c,
     patch |-> Reduce(<<>>, Slice(log, c)),
     lastMutationId |-> lmi[clientId],
     sv |-> ver]

\* SyncKVServer.pull: the response (sv is the version when it was serviced)
PullResponse(log, ver, lmi, clientId, c) ==
    [cookie |-> Len(log),
     patch |-> Reduce(<<>>, Slice(log, c)),
     lastMutationId |-> lmi[clientId],
     sv |-> ver]

\* a pull that does not forget the id it acknowledges
PullConsume_Keeps(lmi, clientId) == lmi

\* SyncKVServer.pull: lastMutationIds after it
PullConsume(lmi, clientId) == [lmi EXCEPT ![clientId] = NoMutation]

\* SyncKVClient.poke, for the handle h, on st = [lmi, inbox, acks, poked]
Poke(h, log, ver, st) ==
    IF cookie[h] = NoCookie THEN [st EXCEPT !.poked = Append(@, h)]
    ELSE LET r == PullResponse(log, ver, st.lmi, h, cookie[h])
         IN [lmi |-> PullConsume(st.lmi, h),
             inbox |-> [st.inbox EXCEPT ![h] = Append(@, r)],
             acks |-> IF r.lastMutationId = NoMutation THEN st.acks
                      ELSE Append(st.acks, <<h, r.lastMutationId>>),
             poked |-> Append(st.poked, h)]

\* SyncKVServer.pokeAllClients
RECURSIVE PokeAllClients(_, _, _, _)
PokeAllClients(hs, log, ver, st) ==
    IF hs = <<>> THEN st
    ELSE PokeAllClients(Tail(hs), log, ver, Poke(Head(hs), log, ver, st))

\* SyncKVServer.push: the log after it
PushLog(log, mutations) == Append(log, ServerRunAll(<<>>, log, mutations))

\* a push that does not count itself
PushVersion_Forgot(ver) == ver

\* SyncKVServer.push: this.version++
PushVersion(ver) == ver + 1

\* SyncKVServer.push: lastMutationIds after it, before the pokes
PushRecord(lmi, clientId, mutations) ==
    [lmi EXCEPT ![clientId] = mutations[Len(mutations)].mutationId]

\* the mutator names of a list that are not in the registry
UnknownMutators(mutations) ==
    {i \in 1..Len(mutations) : mutations[i].key \notin Mutators}

\* a push that pokes first and appends and records afterwards
PushResult_PokesFirst(clientId, arg) ==
    LET st == PokeAllClients(handles, sdb, version,
                             [lmi |-> lastMutationIds, inbox |-> inbox,
                              acks |-> acks, poked |-> <<>>])
    IN [sdb |-> PushLog(sdb, arg.list), version |-> PushVersion(version),
        lmi |-> PushRecord(st.lmi, clientId, arg.list),
        inbox |-> st.inbox, acks |-> st.acks, poked |-> st.poked, threw |-> FALSE]

\* SyncKVServer.push(clientId, mutations), the server after it and the pulls
\* its pokes started; arg.given is FALSE when the list is missing.
\* A missing list throws at the loop header and an unknown mutator inside the
\* loop, before the append; an empty list throws at mutations[length - 1],
\* after the append and the increment.
PushResult(clientId, arg) ==
    IF ~arg.given \/ UnknownMutators(arg.list) # {}
    THEN [sdb |-> sdb, version |-> version, lmi |-> lastMutationIds,
          inbox |-> inbox, acks |-> acks, poked |-> <<>>, threw |-> TRUE]
    ELSE IF arg.list = <<>>
    THEN [sdb |-> PushLog(sdb, arg.list), version |-> PushVersion(version),
          lmi |-> lastMutationIds,
          inbox |-> inbox, acks |-> acks, poked |-> <<>>, threw |-> TRUE]
    ELSE LET log == PushLog(sdb, arg.list)
             ver == PushVersion(version)
             st == PokeAllClients(handles, log, ver,
                                  [lmi |-> PushRecord(lastMutationIds, clientId, arg.list),
                                   inbox |-> inbox, acks |-> acks, poked |-> <<>>])
         IN [sdb |-> log, version |-> ver, lmi |-> st.lmi,
             inbox |-> st.inbox, acks |-> st.acks, poked |-> st.poked, threw |-> FALSE]

\* ----------------------------------------------------------------- client
\* SyncKVClient.get
Get(c, k) ==
    LET hits == {i \in 1..Len(optimisticMutations[c]) : Has(optimisticMutations[c][i].patch, k)}
    IN IF hits = {} THEN Lookup(db[c], k)
       ELSE <<optimisticMutations[c][CHOOSE i \in hits : \A j \in hits : i <= j].patch[k]>>

\* optimisticMutations.findIndex(m => m.mutationId === lastMutationId), 0 when absent
FindIndex(q, id) ==
    LET hits == {i \in 1..Len(q) : q[i].mutationId = id}
    IN IF hits = {} THEN 0 ELSE CHOOSE i \in hits : \A j \in hits : i <= j

\* an onPull that drops the acknowledged records and keeps the old patches
Rebase_NoRerun(q, index, cdb) == SubSeq(q, index + 1, Len(q))

\* the rebase loop and the slice of onPull: the records after index, re-run on cdb
Rebase(q, index, cdb) ==
    [i \in 1..(Len(q) - index) |->
        [q[index + i] EXCEPT !.patch = ClientRun(cdb, q[index + i].key, q[index + i].arg)]]

\* Object.keys(patchToEmit): the response's keys and those the rebased
\* records write
EmitKeys(patch, rebased) ==
    (DOMAIN patch) \cup UNION {DOMAIN rebased[i].patch : i \in 1..Len(rebased)}

\* no transaction is under study
NoTx == [kind |-> "none", view |-> <<>>, patch |-> <<>>, got |-> [key |-> "", result |-> <<>>]]

\* ------------------------------------------------------------------ Init
Init ==
    /\ sdb \in InitialStates
    /\ version = Len(sdb)
    /\ lastMutationIds = [c \in Clients |-> NoMutation]
    /\ handles = <<>>
    /\ mounted = {}
    /\ db = [c \in Clients |-> <<>>]
    /\ optimisticMutations = [c \in Clients |-> <<>>]
    /\ cookie = [c \in Clients |-> NoCookie]
    /\ inbox = [c \in Clients |-> <<>>]
    /\ nextId = 1
    /\ pushes = <<>>
    /\ acks = <<>>
    /\ missed = {}
    /\ last = [op |-> "init", c |-> "", ack |-> NoMutation, poked |-> <<>>]
    /\ reply = <<>>
    /\ apiCalls = 0
    /\ emitted = {}
    /\ subscriptions = [c \in Clients |-> [k \in Keys |-> <<>>]]
    /\ unsubs = <<>>
    /\ tx = NoTx

\* --------------------------------------------------------------- actions
\* new SyncKVClient({mutators, server}): the initial pull is serviced at once
\* (cookie defaults to 0), its onPull waits in the inbox
Construct(c) ==
    /\ c \notin mounted
    /\ mounted' = mounted \cup {c}
    /\ LET r == PullResponse(sdb, version, lastMutationIds, c, 0)
       IN /\ inbox' = [inbox EXCEPT ![c] = Append(@, r)]
          /\ lastMutationIds' = PullConsume(lastMutationIds, c)
          /\ acks' = IF r.lastMutationId = NoMutation THEN acks
                     ELSE Append(acks, <<c, r.lastMutationId>>)
          /\ emitted' = {}
          /\ last' = [op |-> "construct", c |-> c, ack |-> NoMutation, poked |-> <<>>]
    /\ UNCHANGED <<sdb, version, handles, db, optimisticMutations, cookie,
                   nextId, pushes, missed, reply, apiCalls, subscriptions, unsubs, tx>>

\* server.connectToClient(client), for a client that is not registered
ConnectToClient(c) ==
    /\ c \in mounted
    /\ \A i \in 1..Len(handles) : handles[i] # c
    /\ handles' = Append(handles, c)
    /\ emitted' = {}
    /\ last' = [op |-> "connect", c |-> c, ack |-> NoMutation, poked |-> <<>>]
    /\ UNCHANGED <<sdb, version, lastMutationIds, mounted, db, optimisticMutations,
                   cookie, inbox, nextId, pushes, acks, missed, reply, apiCalls, subscriptions, unsubs, tx>>

\* the function connectToClient returned: splice the first matching handle
\* (no test calls it; the specifications below leave the handles registered)
Disconnect(c) ==
    /\ \E i \in 1..Len(handles) : handles[i] = c
    /\ LET i == CHOOSE i \in 1..Len(handles) :
                   handles[i] = c /\ \A j \in 1..(i - 1) : handles[j] # c
       IN handles' = SubSeq(handles, 1, i - 1) \o SubSeq(handles, i + 1, Len(handles))
    /\ emitted' = {}
    /\ last' = [op |-> "disconnect", c |-> c, ack |-> NoMutation, poked |-> <<>>]
    /\ UNCHANGED <<sdb, version, lastMutationIds, mounted, db, optimisticMutations,
                   cookie, inbox, nextId, pushes, acks, missed, reply, apiCalls, subscriptions, unsubs, tx>>

\* client.mutate[name](arg): the optimistic record, then server.push, which
\* runs the mutator, appends the patch, records the id and pokes every handle
Mutate(c, name, arg) ==
    /\ c \in mounted
    /\ nextId <= MaxMutations
    /\ LET mutation == [mutationId |-> nextId, key |-> name, arg |-> arg]
           record == [mutationId |-> nextId, key |-> name, arg |-> arg,
                      patch |-> ClientRun(db[c], name, arg)]
           st == PushResult(c, [given |-> TRUE, list |-> <<mutation>>])
       IN /\ optimisticMutations' = [optimisticMutations EXCEPT ![c] = Append(@, record)]
          /\ sdb' = st.sdb
          /\ version' = st.version
          /\ lastMutationIds' = st.lmi
          /\ inbox' = st.inbox
          /\ acks' = st.acks
          /\ pushes' = Append(pushes, [c |-> c, mutationId |-> nextId, key |-> name, arg |-> arg])
          /\ missed' = missed \cup
                {x \in mounted : cookie[x] = NoCookie \/ \A i \in 1..Len(handles) : handles[i] # x}
          /\ emitted' = DOMAIN record.patch
          /\ last' = [op |-> "mutate", c |-> c, ack |-> NoMutation, poked |-> st.poked]
    /\ nextId' = nextId + 1
    /\ UNCHANGED <<handles, mounted, db, cookie, reply, apiCalls, subscriptions, unsubs, tx>>

\* an onPull whose branch without lastMutationId does not apply the patch
OnPullResult_NoApply(c, r) ==
    LET index == FindIndex(optimisticMutations[c], r.lastMutationId)
        cdb == Assign(db[c], r.patch)
    IN IF r.lastMutationId = NoMutation
       THEN [db |-> db[c], cookie |-> r.cookie, q |-> optimisticMutations[c], emit |-> DOMAIN r.patch]
       ELSE IF index = 0
       THEN [db |-> db[c], cookie |-> cookie[c], q |-> optimisticMutations[c], emit |-> {}]
       ELSE [db |-> cdb, cookie |-> r.cookie,
             q |-> Rebase(optimisticMutations[c], index, cdb),
             emit |-> EmitKeys(r.patch, Rebase(optimisticMutations[c], index, cdb))]

\* an onPull whose branch without lastMutationId empties the queue
OnPullResult_DropsPending(c, r) ==
    LET index == FindIndex(optimisticMutations[c], r.lastMutationId)
        cdb == Assign(db[c], r.patch)
    IN IF r.lastMutationId = NoMutation
       THEN [db |-> cdb, cookie |-> r.cookie, q |-> <<>>, emit |-> DOMAIN r.patch]
       ELSE IF index = 0
       THEN [db |-> db[c], cookie |-> cookie[c], q |-> optimisticMutations[c], emit |-> {}]
       ELSE [db |-> cdb, cookie |-> r.cookie,
             q |-> Rebase(optimisticMutations[c], index, cdb),
             emit |-> EmitKeys(r.patch, Rebase(optimisticMutations[c], index, cdb))]

\* an onPull that applies and emits the patch of a response whose
\* lastMutationId it does not find
OnPullResult_AppliesUnknown(c, r) ==
    LET index == FindIndex(optimisticMutations[c], r.lastMutationId)
        cdb == Assign(db[c], r.patch)
    IN IF r.lastMutationId = NoMutation \/ index = 0
       THEN [db |-> cdb, cookie |-> r.cookie, q |-> optimisticMutations[c], emit |-> DOMAIN r.patch]
       ELSE [db |-> cdb, cookie |-> r.cookie,
             q |-> Rebase(optimisticMutations[c], index, cdb),
             emit |-> EmitKeys(r.patch, Rebase(optimisticMutations[c], index, cdb))]

\* onPull, the fields of the client after it, for the response r
OnPullResult(c, r) ==
    LET index == FindIndex(optimisticMutations[c], r.lastMutationId)
        cdb == Assign(db[c], r.patch)
    IN IF r.lastMutationId = NoMutation
       THEN [db |-> cdb, cookie |-> r.cookie, q |-> optimisticMutations[c], emit |-> DOMAIN r.patch]
       ELSE IF index = 0
       THEN [db |-> db[c], cookie |-> cookie[c], q |-> optimisticMutations[c], emit |-> {}]
       ELSE [db |-> cdb, cookie |-> r.cookie,
             q |-> Rebase(optimisticMutations[c], index, cdb),
             emit |-> EmitKeys(r.patch, Rebase(optimisticMutations[c], index, cdb))]

\* the .then(this.onPull) of the oldest pull of client c runs
OnPull(c) ==
    /\ inbox[c] # <<>>
    /\ LET r == Head(inbox[c])
           res == OnPullResult(c, r)
       IN /\ db' = [db EXCEPT ![c] = res.db]
          /\ cookie' = [cookie EXCEPT ![c] = res.cookie]
          /\ optimisticMutations' = [optimisticMutations EXCEPT ![c] = res.q]
          /\ emitted' = res.emit
          /\ last' = [op |-> "onPull", c |-> c, ack |-> r.lastMutationId, poked |-> <<>>]
    /\ inbox' = [inbox EXCEPT ![c] = Tail(@)]
    /\ UNCHANGED <<sdb, version, lastMutationIds, handles, mounted, nextId,
                   pushes, acks, missed, reply, apiCalls, subscriptions, unsubs, tx>>

Next ==
    \/ \E c \in Clients : Construct(c)
    \/ \E c \in Clients : ConnectToClient(c)
    \/ \E c \in Clients : \E name \in Mutators : \E arg \in MutatorArgs(name) : Mutate(c, name, arg)
    \/ \E c \in Clients : OnPull(c)

\* ---------------------------------------------- direct calls of the API
\* The server is reached through SyncKVServerApi and onPull is a public
\* field of the client: SpecApi adds callers other than the client's own
\* poke, with one client, to study pull and onPull on any input.
ApiClients == {"c1"}

\* the responses a caller can hand to onPull: a patch, the server's version
\* as the cookie, and no lastMutationId, one the client issued, or one it
\* never issued (nextId)
ApiResponses ==
    {[cookie |-> Len(sdb), patch |-> p, lastMutationId |-> id, sv |-> version] :
        p \in {[value |-> 9]}, id \in 0..nextId}

\* server.pull(clientId, ck), called directly; the response goes to the caller
PullAny(clientId, ck) ==
    /\ apiCalls < MaxApiCalls
    /\ apiCalls' = apiCalls + 1
    /\ LET r == PullResponse(sdb, version, lastMutationIds, clientId, ck)
       IN /\ reply' = [asked |-> ck, r |-> r]
          /\ lastMutationIds' = PullConsume(lastMutationIds, clientId)
          /\ acks' = IF r.lastMutationId = NoMutation THEN acks
                     ELSE Append(acks, <<clientId, r.lastMutationId>>)
          /\ emitted' = {}
          /\ last' = [op |-> "pull", c |-> clientId, ack |-> r.lastMutationId, poked |-> <<>>]
    /\ UNCHANGED <<sdb, version, handles, mounted, db, optimisticMutations, cookie,
                   inbox, nextId, pushes, missed, subscriptions, unsubs, tx>>

\* client.onPull(r), called directly
OnPullAny(c, r) ==
    /\ c \in mounted
    /\ apiCalls < MaxApiCalls
    /\ apiCalls' = apiCalls + 1
    /\ LET res == OnPullResult(c, r)
       IN /\ db' = [db EXCEPT ![c] = res.db]
          /\ cookie' = [cookie EXCEPT ![c] = res.cookie]
          /\ optimisticMutations' = [optimisticMutations EXCEPT ![c] = res.q]
          /\ emitted' = res.emit
    /\ reply' = [asked |-> NoCookie, r |-> r]
    /\ last' = [op |-> "onPullAny", c |-> c, ack |-> r.lastMutationId, poked |-> <<>>]
    /\ UNCHANGED <<sdb, version, lastMutationIds, handles, mounted, inbox, nextId,
                   pushes, acks, missed, subscriptions, unsubs, tx>>

\* the arguments of the direct pushes studied: no list, an empty list, a list
\* naming a mutator that is not registered, alone or after a registered one
BadPushArgs ==
    {[given |-> FALSE, list |-> <<>>],
     [given |-> TRUE, list |-> <<>>],
     [given |-> TRUE, list |-> <<[mutationId |-> nextId, key |-> "unknown", arg |-> 2]>>],
     [given |-> TRUE, list |-> <<[mutationId |-> nextId, key |-> "add", arg |-> 2],
                                 [mutationId |-> nextId, key |-> "unknown", arg |-> 2]>>]}

\* server.push(clientId, arg) called directly, with no optimistic record
PushAny(clientId, arg) ==
    /\ apiCalls < MaxApiCalls
    /\ apiCalls' = apiCalls + 1
    /\ LET st == PushResult(clientId, arg)
       IN /\ sdb' = st.sdb
          /\ version' = st.version
          /\ lastMutationIds' = st.lmi
          /\ inbox' = st.inbox
          /\ acks' = st.acks
          /\ emitted' = {}
          /\ last' = [op |-> IF st.threw THEN "pushThrew" ELSE "push",
                      c |-> clientId, ack |-> NoMutation, poked |-> st.poked]
    /\ UNCHANGED <<handles, mounted, db, optimisticMutations, cookie, nextId,
                   pushes, missed, reply, subscriptions, unsubs, tx>>

NextApi ==
    \/ \E c \in ApiClients : Construct(c)
    \/ \E c \in ApiClients : ConnectToClient(c)
    \/ \E c \in ApiClients : \E name \in Mutators : \E arg \in MutatorArgs(name) : Mutate(c, name, arg)
    \/ \E c \in ApiClients : OnPull(c)
    \/ \E clientId \in ApiClients : \E ck \in 0..(Len(sdb) + 1) : PullAny(clientId, ck)
    \/ \E c \in ApiClients : \E r \in ApiResponses : OnPullAny(c, r)

\* one client and direct pushes
NextPush ==
    \/ \E c \in ApiClients : Construct(c)
    \/ \E c \in ApiClients : ConnectToClient(c)
    \/ \E c \in ApiClients : \E name \in Mutators : \E arg \in MutatorArgs(name) : Mutate(c, name, arg)
    \/ \E c \in ApiClients : OnPull(c)
    \/ \E clientId \in ApiClients : \E arg \in BadPushArgs : PushAny(clientId, arg)

\* ------------------------------------- clients connected when constructed
\* createClient of the tests: new SyncKVClient({server, mutators}) and
\* server.connectToClient(client) in one synchronous step
CreateClient(c) ==
    /\ c \notin mounted
    /\ mounted' = mounted \cup {c}
    /\ handles' = Append(handles, c)
    /\ LET r == PullResponse(sdb, version, lastMutationIds, c, 0)
       IN /\ inbox' = [inbox EXCEPT ![c] = Append(@, r)]
          /\ lastMutationIds' = PullConsume(lastMutationIds, c)
          /\ acks' = IF r.lastMutationId = NoMutation THEN acks
                     ELSE Append(acks, <<c, r.lastMutationId>>)
          /\ emitted' = {}
          /\ last' = [op |-> "createClient", c |-> c, ack |-> NoMutation, poked |-> <<>>]
    /\ UNCHANGED <<sdb, version, db, optimisticMutations, cookie,
                   nextId, pushes, missed, reply, apiCalls, subscriptions, unsubs, tx>>

NextCreated ==
    \/ \E c \in Clients : CreateClient(c)
    \/ \E c \in Clients : \E name \in Mutators : \E arg \in MutatorArgs(name) : Mutate(c, name, arg)
    \/ \E c \in Clients : OnPull(c)

\* ------------------------------------------------ transactions on their own
\* the databases a client transaction is built on, and the patch logs a
\* server transaction is built on
TxViews(kind) ==
    IF kind = "client"
    THEN {<<>>, [value |-> 5], [value |-> 0], [value |-> 5, todos |-> <<>>]}
    ELSE {<<>>, <<[value |-> 5]>>, <<[value |-> 5], [value |-> 0]>>,
          <<[value |-> 5], [todos |-> <<>>]>>}

\* the values a mutator can set: for "value" a falsy and a truthy number
TxValues(k) ==
    IF k = "value" THEN {0, 7} ELSE {<<>>, <<[text |-> "eggs", done |-> FALSE]>>}

NoRead == [key |-> "", result |-> <<>>]

\* new Transaction(db) / new ServerTransaction(db)
TxBegin(kind, view) ==
    /\ tx.kind = "none"
    /\ tx' = [kind |-> kind, view |-> view, patch |-> <<>>, got |-> NoRead]
    /\ UNCHANGED <<sdb, version, lastMutationIds, handles, mounted, db,
                   optimisticMutations, cookie, inbox, nextId, pushes, acks, missed,
                   last, reply, apiCalls, emitted, subscriptions, unsubs>>

\* tx.set(k, v)
TxSetStep(k, v) ==
    /\ tx.kind # "none"
    /\ tx' = [tx EXCEPT !.patch = TxSet(@, k, v), !.got = NoRead]
    /\ UNCHANGED <<sdb, version, lastMutationIds, handles, mounted, db,
                   optimisticMutations, cookie, inbox, nextId, pushes, acks, missed,
                   last, reply, apiCalls, emitted, subscriptions, unsubs>>

\* tx.get(k), the value returned kept in tx.got
TxGetStep(k) ==
    /\ tx.kind # "none"
    /\ tx' = [tx EXCEPT !.got =
                [key |-> k,
                 result |-> IF tx.kind = "client" THEN TxGet(tx.patch, tx.view, k)
                            ELSE ServerTxGet(tx.patch, tx.view, k)]]
    /\ UNCHANGED <<sdb, version, lastMutationIds, handles, mounted, db,
                   optimisticMutations, cookie, inbox, nextId, pushes, acks, missed,
                   last, reply, apiCalls, emitted, subscriptions, unsubs>>

NextTx ==
    \/ \E kind \in {"client", "server"} : \E view \in TxViews(kind) : TxBegin(kind, view)
    \/ \E k \in Keys : \E v \in TxValues(k) : TxSetStep(k, v)
    \/ \E k \in Keys : TxGetStep(k)

\* ------------------------------------------------------------- watchers
\* the callbacks handed to watch
Callbacks == {"f", "g"}

\* the arguments of add in the watcher scenarios
WatchArgs(name) == IF name = "add" THEN {2, 3} ELSE TodoTexts

\* existing.indexOf(callback), 0 when absent
IndexOf(existing, callback) ==
    LET hits == {i \in 1..Len(existing) : existing[i] = callback}
    IN IF hits = {} THEN 0 ELSE CHOOSE i \in hits : \A j \in hits : i <= j

\* client.watch(key, callback): the callback is appended to the key's array,
\* and the function returned is kept in unsubs
Watch(c, key, callback) ==
    /\ c \in mounted
    /\ Len(unsubs) < MaxWatches
    /\ subscriptions' = [subscriptions EXCEPT ![c][key] = Append(@, callback)]
    /\ unsubs' = Append(unsubs, [c |-> c, key |-> key, callback |-> callback, called |-> FALSE])
    /\ emitted' = {}
    /\ last' = [op |-> "watch", c |-> c, ack |-> NoMutation, poked |-> <<>>]
    /\ UNCHANGED <<sdb, version, lastMutationIds, handles, mounted, db,
                   optimisticMutations, cookie, inbox, nextId, pushes, acks, missed,
                   reply, apiCalls, tx>>

\* a call of the function watch returned, the first or a later one: the first
\* entry equal to the callback is spliced out of the key's array
Unsubscribe(h) ==
    /\ h \in 1..Len(unsubs)
    /\ LET u == unsubs[h]
           existing == subscriptions[u.c][u.key]
           index == IndexOf(existing, u.callback)
       IN /\ subscriptions' =
                IF index = 0 THEN subscriptions
                ELSE [subscriptions EXCEPT ![u.c][u.key] =
                        SubSeq(existing, 1, index - 1) \o SubSeq(existing, index + 1, Len(existing))]
          /\ last' = [op |-> "unsubscribe", c |-> u.c, ack |-> NoMutation, poked |-> <<>>]
    /\ unsubs' = [unsubs EXCEPT ![h].called = TRUE]
    /\ emitted' = {}
    /\ UNCHANGED <<sdb, version, lastMutationIds, handles, mounted, db,
                   optimisticMutations, cookie, inbox, nextId, pushes, acks, missed,
                   reply, apiCalls, tx>>

\* SyncKVClient.emit(key): the calls it makes, in order
Emit(c, key) ==
    [i \in 1..Len(subscriptions[c][key]) |->
        [callback |-> subscriptions[c][key][i], value |-> Get(c, key)]]

\* the calls the last operation made to the watchers of key
Fired(key) == IF key \in emitted THEN Emit(last.c, key) ELSE <<>>

NextWatch ==
    \/ \E c \in ApiClients : CreateClient(c)
    \/ \E c \in ApiClients : \E name \in Mutators : \E arg \in WatchArgs(name) : Mutate(c, name, arg)
    \/ \E c \in ApiClients : OnPull(c)
    \/ \E c \in ApiClients : \E key \in Keys : \E callback \in Callbacks : Watch(c, key, callback)
    \/ \E h \in 1..MaxWatches : Unsubscribe(h)

\* ------------------------------------------------------------ properties
Connected(c) == \E i \in 1..Len(handles) : handles[i] = c

\* no .then(this.onPull) is waiting (a push never is: it runs inside mutate)
Quiescent == \A c \in Clients : inbox[c] = <<>>

\* the initialState the server was constructed with
InitialState == IF Len(sdb) > Len(pushes) THEN sdb[1] ELSE <<>>

\* a database after the mutations ms, applied one after the other
RECURSIVE ApplyInOrder(_, _)
ApplyInOrder(state, ms) ==
    IF ms = <<>> THEN state
    ELSE LET m == Head(ms)
             k == MutatorKey(m.key)
         IN ApplyInOrder(Assign(state, [x \in {k} |-> MutatorWrite(m.key, Lookup(state, k), m.arg)]),
                         Tail(ms))

RECURSIVE SumAdds(_)
SumAdds(ms) ==
    IF ms = <<>> THEN 0
    ELSE (IF Head(ms).key = "add" THEN Head(ms).arg ELSE 0) + SumAdds(Tail(ms))

PushedBy(c) == {i \in 1..Len(pushes) : pushes[i].c = c}

\* I1: the newest pending record whose patch holds k, else the client DB
EffectiveValue(c, k) ==
    LET q == optimisticMutations[c]
        hits == {i \in 1..Len(q) : Has(q[i].patch, k)}
    IN IF hits = {} THEN Lookup(db[c], k)
       ELSE <<q[CHOOSE i \in hits : \A j \in hits : j <= i].patch[k]>>

\* C1: in every state, for every client and key, client.get(key) is the value
\* of the newest pending record whose patch holds the key, else the client
\* DB's value, else undefined.
C1_GetIsNewestOptimistic ==
    \A c \in mounted : \A k \in Keys : Get(c, k) = EffectiveValue(c, k)

\* C2: once no pull response is undelivered, every connected client's DB holds
\* the server's value for every key written on the server.
C2_Convergence ==
    Quiescent =>
        \A c \in Clients : Connected(c) =>
            \A k \in Keys : ServerGet(sdb, k) # <<>> => Lookup(db[c], k) = ServerGet(sdb, k)

\* C4: while all mutations come from one client, server.get(K) is, for every
\* key, the result of applying them in invocation order to the initial state;
\* for add on an empty server, server.get("value") is the sum of the arguments.
C4_SingleClientInOrder ==
    (\A i, j \in 1..Len(pushes) : pushes[i].c = pushes[j].c) =>
        /\ \A k \in Keys : ServerGet(sdb, k) = Lookup(ApplyInOrder(InitialState, pushes), k)
        /\ (InitialState = <<>> /\ \E i \in 1..Len(pushes) : pushes[i].key = "add")
               => ServerGet(sdb, "value") = <<SumAdds(pushes)>>

C4_Witness ==
    /\ InitialState = <<>>
    /\ Len(pushes) >= 3
    /\ \A i \in 1..Len(pushes) : pushes[i].c = "c1"
    /\ Connected("c1")
    /\ ServerGet(sdb, "value") = <<4>>
    /\ ServerGet(sdb, "todos") # <<>>

\* C5: with two connected clients, in every interleaving of their add calls
\* and of the pokes, pulls and onPull callbacks, server.get("value") is the
\* initial value plus the sum of all arguments both clients passed.
C5_TwoClientsSum ==
    (Connected("c1") /\ Connected("c2")) =>
        ServerGet(sdb, "value") =
            IF ~Has(InitialState, "value") /\ \A i \in 1..Len(pushes) : pushes[i].key # "add"
            THEN <<>>
            ELSE <<(IF Has(InitialState, "value") THEN InitialState["value"] ELSE 0)
                   + SumAdds(pushes)>>

C5_Witness ==
    /\ Connected("c1") /\ Connected("c2")
    /\ \E i \in PushedBy("c1") : pushes[i].key = "add"
    /\ \E i \in PushedBy("c2") : pushes[i].key = "add"
    /\ Len(pushes) >= 3
    /\ ~Quiescent
    /\ ServerGet(sdb, "value") = <<SumAdds(pushes)>>

\* C6: a connected client that had completed its initial pull at every push,
\* and has no pending record, reads the server's value for every key once the
\* pulls its pokes started have been delivered.
C6_Propagation ==
    \A c \in Clients :
        (Connected(c) /\ c \notin missed /\ cookie[c] # NoCookie
            /\ optimisticMutations[c] = <<>> /\ inbox[c] = <<>>)
        => \A k \in Keys : Get(c, k) = ServerGet(sdb, k)

C6_Witness ==
    /\ Connected("c1") /\ Connected("c2")
    /\ "c1" \notin missed
    /\ optimisticMutations["c1"] = <<>> /\ inbox["c1"] = <<>>
    /\ Cardinality(PushedBy("c2")) >= 2
    /\ PushedBy("c1") = {}
    /\ Get("c1", "value") = ServerGet(sdb, "value")
    /\ Get("c1", "value") # <<>>
    /\ \E i \in PushedBy("c2") : pushes[i].key = "add"

\* the response an onPull step hands to the client c
Delivered(c) == IF last'.op = "onPull" THEN Head(inbox[c]) ELSE reply'.r

OnPullStep(c) == last'.op \in {"onPull", "onPullAny"} /\ last'.c = c

\* C3: an onPull with lastMutationId = M leaves neither M nor any record
\* enqueued before it; the records enqueued after M stay in their order, each
\* with the patch its mutator gives on the client DB updated by the response.
C3_Acknowledgement ==
    [][\A c \in Clients :
        (OnPullStep(c) /\ Delivered(c).lastMutationId # NoMutation) =>
            LET M == Delivered(c).lastMutationId
                q == optimisticMutations[c]
                after == SelectSeq(q, LAMBDA rec : rec.mutationId > M)
                q2 == optimisticMutations'[c]
            IN /\ \A i \in 1..Len(q2) : q2[i].mutationId > M
               /\ db'[c] = Assign(db[c], Delivered(c).patch)
               /\ Len(q2) = Len(after)
               /\ \A i \in 1..Len(q2) :
                    /\ q2[i].mutationId = after[i].mutationId
                    /\ q2[i].key = after[i].key
                    /\ q2[i].arg = after[i].arg
                    /\ q2[i].patch = ClientRun(db'[c], after[i].key, after[i].arg)
    ]_vars

\* an acknowledging onPull has left a record behind, with a patch that is not
\* the one the record was enqueued with
C3_Witness ==
    /\ last.op = "onPull" /\ last.ack # NoMutation
    /\ optimisticMutations[last.c] # <<>>
    /\ optimisticMutations[last.c][1].mutationId > last.ack
    /\ optimisticMutations[last.c][1].key = "add"
    /\ optimisticMutations[last.c][1].patch["value"] >= 4

\* C7 as claimed: after any onPull, ack found or not, the client's cookie is
\* the server's version at the moment the pull was serviced.
C7_CookieAfterAnyPull ==
    [][\A c \in Clients : OnPullStep(c) => cookie'[c] = Delivered(c).sv]_vars

\* C7 as amended: after an onPull without lastMutationId, or with one found in
\* the queue, the client's cookie is the server's version at the moment the
\* pull was serviced; with one not found in the queue the cookie is unchanged.
C7_CookieAfterPull ==
    [][\A c \in Clients : OnPullStep(c) =>
        IF Delivered(c).lastMutationId = NoMutation
           \/ \E i \in 1..Len(optimisticMutations[c]) :
                optimisticMutations[c][i].mutationId = Delivered(c).lastMutationId
        THEN cookie'[c] = Delivered(c).sv
        ELSE cookie'[c] = cookie[c]
    ]_vars

\* an onPull has ignored an unknown lastMutationId while the server was ahead
C7_Witness ==
    /\ last.op = "onPullAny" /\ last.ack = nextId
    /\ optimisticMutations[last.c] # <<>>
    /\ cookie[last.c] # NoCookie
    /\ cookie[last.c] < reply.r.sv

\* the responses the step adds to the inbox of c
NewResponses(c) ==
    IF last'.op = "onPull" THEN {}
    ELSE {inbox'[c][i] : i \in (Len(inbox[c]) + 1)..Len(inbox'[c])}

\* C8: the version never decreases and grows by exactly one per push; the
\* cookie a pull returns is never below one returned earlier; a client's
\* stored cookie never decreases.
C8_CookiesMonotonic ==
    [][/\ version' >= version
       /\ version' - version = Len(pushes') - Len(pushes)
       /\ \A c \in Clients : \A r \in NewResponses(c) :
            \A d \in Clients :
                /\ cookie[d] <= r.cookie
                /\ \A j \in 1..Len(inbox[d]) : inbox[d][j].cookie <= r.cookie
       /\ \A c \in Clients : cookie'[c] >= cookie[c]
    ]_vars

\* a client holds a cookie, and a later pull with a higher cookie has been
\* delivered to it after a push
C8_Witness ==
    /\ last.op = "onPull"
    /\ version >= 3
    /\ cookie[last.c] = version
    /\ inbox[last.c] = <<>>
    /\ \E d \in Clients : d # last.c /\ cookie[d] # NoCookie /\ cookie[d] < version

AckedIds == {acks[i][2] : i \in 1..Len(acks)}

\* C9: a pull returns a lastMutationId only to the client that pushed it, it
\* is the id of that client's most recent push, the pull removes the entry,
\* and no id is returned twice.
C9_ConsumeOnRead ==
    /\ [](/\ \A i \in 1..Len(acks) :
                /\ acks[i][2] \in 1..Len(pushes)
                /\ pushes[acks[i][2]].c = acks[i][1]
          /\ \A i, j \in 1..Len(acks) : i # j => acks[i][2] # acks[j][2]
          /\ \A c \in Clients : lastMutationIds[c] # NoMutation =>
                /\ lastMutationIds[c] \notin AckedIds
                /\ lastMutationIds[c] \in PushedBy(c)
                /\ \A i \in PushedBy(c) : i <= lastMutationIds[c])
    /\ [][\A n \in (Len(acks) + 1)..Len(acks') :
            LET c == acks'[n][1]
                id == acks'[n][2]
            IN /\ lastMutationIds'[c] = NoMutation
               /\ \E i \in 1..Len(pushes') :
                    /\ pushes'[i].c = c /\ pushes'[i].mutationId = id
                    /\ \A j \in (i + 1)..Len(pushes') : pushes'[j].c # c
               /\ \E i \in 1..Len(inbox'[c]) : inbox'[c][i].lastMutationId = id
       ]_vars

\* a client's second push was acknowledged by a pull of its own, and a later
\* pull of that client carried no lastMutationId
C9_Witness ==
    \E c \in Clients :
        /\ Cardinality(PushedBy(c)) >= 2
        /\ \A i \in PushedBy(c) : <<c, i>> \in {acks[n] : n \in 1..Len(acks)}
        /\ lastMutationIds[c] = NoMutation
        /\ inbox[c] # <<>>
        /\ inbox[c][Len(inbox[c])].lastMutationId = NoMutation
        /\ Len(pushes) > Cardinality(PushedBy(c))

\* C10: pull(clientId, c) returns the keys written by the log entries at
\* index >= c, each with the value of the newest such entry, and the current
\* version as the cookie; a cookie above the version gives an empty patch; the
\* log and the version are unchanged.
C10_PullMerges ==
    [][last'.op = "pull" =>
        LET r == reply'.r
            ck == reply'.asked
            newer == {i \in 1..Len(sdb) : i > ck}
        IN /\ DOMAIN r.patch = UNION {DOMAIN sdb[i] : i \in newer}
           /\ \A k \in DOMAIN r.patch :
                \E i \in newer :
                    /\ Has(sdb[i], k) /\ r.patch[k] = sdb[i][k]
                    /\ \A j \in newer : j > i => ~Has(sdb[j], k)
           /\ r.cookie = version
           /\ ck > version => DOMAIN r.patch = {}
           /\ sdb' = sdb /\ version' = version
    ]_vars

\* a pull from cookie 1 merged entries that write both keys, one of them twice
C10_Witness ==
    /\ last.op = "pull"
    /\ reply.asked = 1
    /\ Len(sdb) >= 4
    /\ DOMAIN reply.r.patch = Keys
    /\ \E i, j \in 2..Len(sdb) : i < j /\ Has(sdb[i], "value") /\ Has(sdb[j], "value")

\* C11: a push appends its patch, increments the version and records the
\* sender's lastMutationId before it pokes; it then calls poke() once on every
\* registered handle, the sender's included, in registration order; the pull
\* that a poke starts sees the new log entry and the new version, and the
\* sender's pull carries the new lastMutationId.
C11_PushBeforePoke ==
    [][last'.op = "mutate" =>
        LET sender == last'.c
            id == nextId
            entry == sdb'[Len(sdb')]
        IN /\ Len(sdb') = Len(sdb) + 1
           /\ version' = version + 1
           /\ last'.poked = handles
           /\ \A h \in Clients :
                IF Connected(h) /\ cookie[h] # NoCookie
                THEN /\ Len(inbox'[h]) = Len(inbox[h]) + 1
                     /\ SubSeq(inbox'[h], 1, Len(inbox[h])) = inbox[h]
                     /\ LET r == inbox'[h][Len(inbox'[h])]
                        IN /\ r.cookie = Len(sdb')
                           /\ r.sv = version'
                           /\ cookie[h] < Len(sdb') =>
                                \A k \in DOMAIN entry :
                                    Has(r.patch, k) /\ r.patch[k] = entry[k]
                           /\ r.lastMutationId =
                                IF h = sender THEN id ELSE lastMutationIds[h]
                           /\ lastMutationIds'[h] = NoMutation
                ELSE /\ inbox'[h] = inbox[h]
                     /\ lastMutationIds'[h] =
                            IF h = sender THEN id ELSE lastMutationIds[h]
    ]_vars

\* a push by c2 has poked both registered clients, c1 first; each has a new
\* response in flight, and only c2's carries the id
C11_Witness ==
    /\ last.op = "mutate" /\ last.c = "c2"
    /\ last.poked = <<"c1", "c2">>
    /\ inbox["c1"] # <<>> /\ inbox["c2"] # <<>>
    /\ inbox["c2"][Len(inbox["c2"])].lastMutationId = nextId - 1
    /\ inbox["c1"][Len(inbox["c1"])].lastMutationId = NoMutation
    /\ inbox["c1"][Len(inbox["c1"])].cookie = Len(sdb)
    /\ Has(inbox["c1"][Len(inbox["c1"])].patch, "value")

\* the mutation ids of a queue, in queue order
QueueIds(q) == [i \in 1..Len(q) |-> q[i].mutationId]

\* C15: a record leaves the optimistic queue only in an onPull whose
\* lastMutationId is the id of that record or of a record enqueued after it,
\* and the server has by then run that mutation in a push; a mutate only
\* appends, and a poke, a connect or an onPull without lastMutationId leaves
\* the queue's records and their order as they were.
C15_RemovedOnlyByAck ==
    [][\A c \in Clients :
        LET q == optimisticMutations[c]
            q2 == optimisticMutations'[c]
        IN IF OnPullStep(c) /\ Delivered(c).lastMutationId # NoMutation
           THEN LET M == Delivered(c).lastMutationId
                    index == FindIndex(q, M)
                IN /\ QueueIds(q2) = SubSeq(QueueIds(q), index + 1, Len(q))
                   /\ \A i \in 1..index :
                        /\ q[i].mutationId <= M
                        /\ \E n \in 1..Len(pushes) :
                             /\ pushes[n].c = c
                             /\ pushes[n].mutationId = q[i].mutationId
                             /\ n <= Len(sdb)
           ELSE /\ Len(q2) >= Len(q)
                /\ SubSeq(q2, 1, Len(q)) = q
                /\ Len(q2) > Len(q) => last'.op = "mutate" /\ last'.c = c
    ]_vars

\* an onPull of c1 has removed two records with the lastMutationId of the
\* later one: the earlier one's id was never returned by a pull
C15_Witness ==
    /\ last.op = "onPull" /\ last.c = "c1" /\ last.ack >= 2
    /\ optimisticMutations["c1"] = <<>>
    /\ {last.ack - 1, last.ack} \subseteq PushedBy("c1")
    /\ \A n \in 1..Len(acks) : acks[n][2] # last.ack - 1
    /\ PushedBy("c2") # {}

\* C18: after an onPull that changes the client DB, with or without
\* lastMutationId, every record still in the queue holds the patch its mutator
\* gives on the updated DB.
C18_PendingRebased ==
    [][\A c \in Clients :
        (OnPullStep(c) /\ db'[c] # db[c]) =>
            \A i \in 1..Len(optimisticMutations'[c]) :
                LET rec == optimisticMutations'[c][i]
                IN rec.patch = ClientRun(db'[c], rec.key, rec.arg)
    ]_vars

\* C19: when every client is connected as soon as it is constructed, a client
\* has no pending record once no pull response is undelivered: each of its
\* mutations has been acknowledged, those made before its initial pull
\* returned included.
C19_AllAcknowledged ==
    Quiescent => \A c \in mounted : Connected(c) => optimisticMutations[c] = <<>>

\* C20: a push that throws, for an unknown mutator or for an empty or missing
\* mutation list, leaves the log, the version and the lastMutationIds as they
\* were and pokes no client.
C20_FailedPushNoEffect ==
    [][last'.op = "pushThrew" =>
        /\ sdb' = sdb
        /\ version' = version
        /\ lastMutationIds' = lastMutationIds
        /\ last'.poked = <<>>
        /\ inbox' = inbox
    ]_vars

\* C16: an onPull whose lastMutationId is the id of no record in the queue
\* returns normally, leaves the client DB, the queue and the cookie as they
\* were and calls emit for no key, so that no watcher is invoked.
C16_UnknownAckIgnored ==
    [][\A c \in Clients :
        (/\ OnPullStep(c)
         /\ Delivered(c).lastMutationId # NoMutation
         /\ FindIndex(optimisticMutations[c], Delivered(c).lastMutationId) = 0)
        => /\ db'[c] = db[c]
           /\ optimisticMutations'[c] = optimisticMutations[c]
           /\ cookie'[c] = cookie[c]
           /\ emitted' = {}
    ]_vars

\* a response with a patch and an id the client had acknowledged before has
\* been handed to onPull while another record was pending, and nothing changed
C16_Witness ==
    /\ last.op = "onPullAny" /\ last.ack # NoMutation /\ last.ack < nextId
    /\ \A i \in 1..Len(optimisticMutations[last.c]) :
            optimisticMutations[last.c][i].mutationId # last.ack
    /\ optimisticMutations[last.c] # <<>>
    /\ Lookup(db[last.c], "value") # <<>>
    /\ Lookup(db[last.c], "value") # Lookup(reply.r.patch, "value")
    /\ emitted = {}

\* C17: in a transaction, get(k) after set(k, v) returns v, whatever v is, 0
\* included, and get(k) of a key never set returns the value of the database
\* the transaction was built on: db[k] on a client, the newest log entry's
\* value on the server.
C17_ReadYourWrites ==
    (tx.kind # "none" /\ tx.got.key # "") =>
        LET k == tx.got.key
        IN tx.got.result =
            IF Has(tx.patch, k) THEN <<tx.patch[k]>>
            ELSE IF tx.kind = "client" THEN Lookup(tx.view, k)
            ELSE ServerGet(tx.view, k)

\* the calls the claims expect for a key: one per registration, in
\* registration order, each with the client's effective value
ExpectedCalls(c, key) ==
    [i \in 1..Len(subscriptions[c][key]) |->
        [callback |-> subscriptions[c][key][i], value |-> EffectiveValue(c, key)]]

\* C12: a mutate calls, for every key its patch writes, every callback
\* registered on that key once, in registration order, with the client's
\* effective value of the key once the record is enqueued; it calls no
\* callback registered on a key its patch does not write.
C12_LocalWatchers ==
    last.op = "mutate" =>
        LET q == optimisticMutations[last.c]
            written == DOMAIN q[Len(q)].patch
        IN \A k \in Keys :
            Fired(k) = IF k \in written THEN ExpectedCalls(last.c, k) ELSE <<>>

\* C13: an onPull that applies its response calls the watchers of every key
\* in its emit-set (the keys of the server patch and, when the response
\* carries a lastMutationId, of every rebased record's patch) once and no
\* other watcher, each with the client's effective value after the DB
\* update, the rebase, the discard and the cookie update.
C13_RemoteWatchers ==
    [][\A c \in Clients : OnPullStep(c) =>
        LET r == Delivered(c)
            found == /\ r.lastMutationId # NoMutation
                     /\ FindIndex(optimisticMutations[c], r.lastMutationId) # 0
            q2 == optimisticMutations'[c]
            emitSet == IF r.lastMutationId = NoMutation THEN DOMAIN r.patch
                       ELSE IF found
                       THEN (DOMAIN r.patch) \cup UNION {DOMAIN q2[i].patch : i \in 1..Len(q2)}
                       ELSE {}
        IN \A k \in Keys :
            Fired(k)' = IF k \in emitSet THEN ExpectedCalls(c, k)' ELSE <<>>
    ]_vars

\* C14: the first call of a function returned by watch removes exactly one
\* entry equal to its callback from its key's array, and every later call of
\* the same function leaves all registrations as they are.
C14_UnsubscribeOnce ==
    [][last'.op = "unsubscribe" =>
        IF unsubs' = unsubs
        THEN subscriptions' = subscriptions
        ELSE \A h \in 1..Len(unsubs) :
                unsubs'[h] # unsubs[h] =>
                    LET u == unsubs[h]
                        before == subscriptions[u.c][u.key]
                    IN \E i \in 1..Len(before) :
                        /\ before[i] = u.callback
                        /\ subscriptions' =
                              [subscriptions EXCEPT ![u.c][u.key] =
                                  SubSeq(before, 1, i - 1) \o SubSeq(before, i + 1, Len(before))]
    ]_vars

Spec == Init /\ [][Next]_vars

SpecApi == Init /\ [][NextApi]_vars

SpecCreated == Init /\ [][NextCreated]_vars

SpecPush == Init /\ [][NextPush]_vars

SpecTx == Init /\ [][NextTx]_vars

SpecWatch == Init /\ [][NextWatch]_vars

====
